---- MODULE Spec2Model ----
(***************************************************************************)
(* gopuntes: the Bubble Tea state machine of src/main.go.                  *)
(*                                                                         *)
(* The model is the program's model struct, the commands it has handed to  *)
(* the runtime and that have not run yet (cmds), the result messages       *)
(* that have been produced and not yet passed to Update (msgs), the        *)
(* configuration file and the process's exit.  A command runs in its own   *)
(* goroutine, so commands run and results are delivered in any order.      *)
(*                                                                         *)
(* Strings are sequences of tokens: a token is one character, the path     *)
(* separator "/" or a file extension such as ".md".                        *)
(***************************************************************************)
EXTENDS Naturals, Integers, Sequences, FiniteSets, Bags, TLC

VARIABLES
    state,          \* model.state
    showViewport,   \* model.showViewport
    err,            \* model.err (NoErr is nil)
    config,         \* model.config.NotesPath
    items,          \* model.list: its items
    cursor,         \* model.list: index of the cursor among the visible items
    filterState,    \* model.list: FilterState()
    filterText,     \* model.list: the filter input's value
    filteredItems,  \* model.list: the items the filter last matched
    listSize,       \* model.list: width and height
    inputBuf,       \* model.textInput.Value()
    vpContent,      \* model.viewport: the content set by SetContent
    vpYOffset,      \* model.viewport.YOffset
    vpSize,         \* model.viewport.Width and Height
    cmds,           \* bag of the commands dispatched and not yet run
    msgs,           \* bag of the result messages produced and not yet processed
    cfgFile,        \* the file ~/.config/gopuntes/config.toml
    tree,           \* the folders and files on disk, in the order filepath.WalkDir visits them
    goos,           \* runtime.GOOS, "" until openPDF reads it: it is the same all run long
    home,           \* os.UserHomeDir() succeeds
    running,        \* p.Run() has not returned
    exitCode,       \* the process's exit code once it has ended (NoExit before)
    dispatched,     \* how many commands the user's enter key has dispatched so far
    last            \* the last call of Update: its message, the state it was called in
                    \* and the commands it returned

listVars == <<items, cursor, filterState, filterText, filteredItems>>
vpVars == <<vpContent, vpYOffset>>
sizeVars == <<listSize, vpSize>>
envVars == <<cfgFile, tree, goos, home, running, exitCode>>

vars == <<state, showViewport, err, config, listVars, sizeVars, inputBuf, vpVars,
          cmds, msgs, envVars, dispatched, last>>

-----------------------------------------------------------------------------
(* Bounds *)

\* longest text the user types into the path prompt or the filter (CharLimit is 256)
MaxInput == 1
\* most commands the user dispatches with the enter key in one session
MaxDispatch == 2

-----------------------------------------------------------------------------
(* Program constants *)

stateInitial == "stateInitial"
statePromptForPath == "statePromptForPath"
stateShowList == "stateShowList"

\* appStyle = Margin(1, 2): GetFrameSize() is (4, 2)
FrameH == 4
FrameV == 2
\* viewport.New(80, 24)
DefaultVpWidth == 80
DefaultVpHeight == 24

NoErr == "nil"
NoExit == 0 - 1

Unfiltered == "Unfiltered"
Filtering == "Filtering"
FilterApplied == "FilterApplied"

-----------------------------------------------------------------------------
(* The environment: what the user can type, the terminal sizes, the disk *)

\* the keys that type a character
Runes == {"a", "b", "q", "/"}

\* the keys the user is taken to press at the prompt, on the list, in the filter
\* and in the viewer (ctrl+c and enter apart)
PromptKeys == {"a", "backspace"}
ListKeys == {"up", "down", "/", "q", "esc"}
FilterKeys == {"b", "backspace", "esc", "enter"}
ViewKeys == {"up", "down", "b", "enter", "q", "esc"}

WindowSizes == {<<44, 6>>}

GOOSSet == {"linux", "darwin", "windows", "plan9"}

\* The disk of a session, in the lexical order filepath.WalkDir visits it.
Tree ==
    << [path |-> <<"a">>, isDir |-> TRUE],
       [path |-> <<"a", "/", "a", ".md">>, isDir |-> FALSE],
       [path |-> <<"a", "/", "b">>, isDir |-> TRUE],
       [path |-> <<"a", "/", "b", "/", "b", ".Pdf">>, isDir |-> FALSE],
       [path |-> <<"a", "/", "q", ".MD">>, isDir |-> FALSE],
       [path |-> <<"a", "/", "q", ".txt">>, isDir |-> FALSE],
       [path |-> <<"b">>, isDir |-> TRUE] >>

\* a/q.MD holds text the renderer rejects
BadMarkdown == <<"bad">>
FileText(path) ==
    IF path = <<"a", "/", "q", ".MD">> THEN BadMarkdown ELSE <<"#", "Hi">> \o path

ExtTokens == {".md", ".MD", ".Pdf", ".pdf", ".PDF", ".txt"}

-----------------------------------------------------------------------------
(* String helpers *)

\* strings.ToLower, on the tokens of the model
ToLower(tok) ==
    CASE tok = ".MD" -> ".md"
      [] tok = ".Pdf" -> ".pdf"
      [] tok = ".PDF" -> ".pdf"
      [] OTHER -> tok

\* filepath.Ext: the suffix beginning at the final dot of the last element
Ext(path) ==
    IF Len(path) > 0 /\ path[Len(path)] \in ExtTokens THEN path[Len(path)] ELSE ""

RECURSIVE LastSep(_, _)
LastSep(path, i) ==
    IF i = 0 THEN 0 ELSE IF path[i] = "/" THEN i ELSE LastSep(path, i - 1)

\* filepath.Base: the last element of the path
Base(path) == SubSeq(path, LastSep(path, Len(path)) + 1, Len(path))

IsPrefix(p, s) == Len(p) <= Len(s) /\ SubSeq(s, 1, Len(p)) = p

\* the entry is root itself or lies below it
Under(root, path) == path = root \/ IsPrefix(root \o <<"/">>, path)

Min(a, b) == IF a < b THEN a ELSE b
Max(a, b) == IF a > b THEN a ELSE b

-----------------------------------------------------------------------------
(* Records *)

Cmd(kind, arg) == [kind |-> kind, arg |-> arg]

\* src is the kind of the command that returned the message (bookkeeping, not a Go field)
Msg(type, text, notes, e, c) ==
    [type |-> type, text |-> text, notes |-> notes, err |-> e, src |-> c.kind]

configLoadedMsg(path, c) == Msg("configLoadedMsg", path, <<>>, NoErr, c)
notesFoundMsg(notes, c) == Msg("notesFoundMsg", <<>>, notes, NoErr, c)
configSavedMsg(c) == Msg("configSavedMsg", <<>>, <<>>, NoErr, c)
fileContentMsg(text, c) == Msg("fileContentMsg", text, <<>>, NoErr, c)
errorMsg(e, c) == Msg("errorMsg", <<>>, <<>>, e, c)
QuitMsg(c) == Msg("QuitMsg", <<>>, <<>>, NoErr, c)

item(path, noteType) == [path |-> path, noteType |-> noteType]

NoFile == [exists |-> FALSE, text |-> <<>>]
File(text) == [exists |-> TRUE, text |-> text]

-----------------------------------------------------------------------------
(* TOML, as far as Config needs it *)

\* toml.NewEncoder(file).Encode(Config{NotesPath: path})
Encode(path) == <<"notes_path", "=", "\"">> \o path \o <<"\"">>

DecodeOK(text) ==
    \/ text = <<>>
    \/ /\ Len(text) >= 4
       /\ text[2] = "="
       /\ text[3] = "\""
       /\ text[Len(text)] = "\""
       /\ \A i \in 4..(Len(text) - 1) : text[i] # "\""

\* toml.DecodeFile into Config: a missing notes_path key leaves NotesPath ""
Decode(text) ==
    IF text # <<>> /\ text[1] = "notes_path" THEN SubSeq(text, 4, Len(text) - 1) ELSE <<>>

-----------------------------------------------------------------------------
(* The commands' functions: what each returns when the runtime runs it *)

\* loadConfig
loadConfig(c, homeOK, file) ==
    IF ~homeOK THEN errorMsg("HomeDirFailure", c)
    ELSE IF ~file.exists THEN configLoadedMsg(<<>>, c)
    ELSE IF ~DecodeOK(file.text) THEN errorMsg("ConfigCorrupt", c)
    ELSE configLoadedMsg(Decode(file.text), c)

\* faulty variant of the callback: the extension is compared as it is written
ClassifyCaseSensitive(e) ==
    IF e.isDir THEN <<>>
    ELSE IF Ext(e.path) = ".md" THEN <<item(e.path, "md")>>
    ELSE IF Ext(e.path) = ".pdf" THEN <<item(e.path, "pdf")>>
    ELSE <<>>

\* the callback findNotes passes to filepath.WalkDir, on one entry
Classify(e) ==
    IF e.isDir THEN <<>>
    ELSE IF ToLower(Ext(e.path)) = ".md" THEN <<item(e.path, "md")>>
    ELSE IF ToLower(Ext(e.path)) = ".pdf" THEN <<item(e.path, "pdf")>>
    ELSE <<>>

RECURSIVE WalkDir(_, _)
WalkDir(root, i) ==
    IF i > Len(tree) THEN <<>>
    ELSE (IF Under(root, tree[i].path) THEN Classify(tree[i]) ELSE <<>>)
         \o WalkDir(root, i + 1)

RootExists(root) == \E i \in 1..Len(tree) : tree[i].path = root

\* findNotes(root)
findNotes(c) ==
    IF ~RootExists(c.arg) THEN errorMsg("ScanFailure", c)
    ELSE notesFoundMsg(WalkDir(c.arg, 1), c)

\* readMarkdownContent(path); readable says whether os.ReadFile succeeded
readMarkdownContent(c, readable) ==
    IF ~readable THEN errorMsg("ReadFailure", c)
    ELSE fileContentMsg(FileText(c.arg), c)

\* openPDF(path): the opener for runtime.GOOS, "" when there is none
Opener(os) ==
    CASE os = "darwin" -> "open"
      [] os = "linux" -> "xdg-open"
      [] os = "windows" -> "cmd"
      [] OTHER -> ""

\* openPDF(path): the messages it can return; launched says whether cmd.Run() succeeded.
\* A nil message is no message: the set is empty.
openPDF(c, os, launched) ==
    IF Opener(os) = "" THEN {errorMsg("UnsupportedPlatform", c)}
    ELSE IF ~launched THEN {errorMsg("LaunchFailure", c)}
    ELSE {}

\* glamour's renderer.Render(text) with WithWordWrap(width)
RenderOK(text) == text # BadMarkdown
Render(text, width) == [text |-> text, wrap |-> width]
NoContent == [text |-> <<>>, wrap |-> 0]

-----------------------------------------------------------------------------
(* The state the user sees *)

\* model.View: the error when there is one, else the screen of m.state
Variant ==
    IF err # NoErr THEN "Fatal"
    ELSE IF state = stateInitial THEN "AwaitingConfig"
    ELSE IF state = statePromptForPath THEN "PromptingForPath"
    ELSE IF showViewport THEN "Viewing"
    ELSE "Browsing"

-----------------------------------------------------------------------------
(* The runtime's bookkeeping *)

QuitCmd == Cmd("quit", <<>>)
NoCmds == {}
One(x) == SetToBag({x})

Count(bag, S) == BagCardinality([x \in S \cap BagToSet(bag) |-> bag[x]])

\* the commands of a kind that are outstanding: dispatched, and the result not yet processed
Outstanding(kinds) ==
    Count(cmds, {c \in BagToSet(cmds) : c.kind \in kinds})
    + Count(msgs, {m \in BagToSet(msgs) : m.src \in kinds})

\* The loadConfig and saveConfig commands read and write the configuration file:
\* each runs at some moment (Run...), and what it returned waits in msgs.  The other
\* commands touch nothing the program writes, so when they ran makes no difference:
\* each stays in cmds until the event loop receives what it returns.
Results(c, os) ==
    CASE c.kind = "scan" -> {findNotes(c)}
      [] c.kind = "read" -> {readMarkdownContent(c, readable) : readable \in BOOLEAN}
      [] c.kind = "open" -> UNION {openPDF(c, os, launched) : launched \in BOOLEAN}
      [] c.kind = "quit" -> {QuitMsg(c)}
      [] OTHER -> {}

\* the values runtime.GOOS can have for a command that reads it now
GOOSOf(c) == IF c.kind = "open" /\ goos = "" THEN GOOSSet ELSE {goos}

\* what the event loop can receive next: a message m, with the command that has
\* just returned it (done) or the place it waited in (got), and runtime.GOOS
Arrival(m, done, got, os) == [m |-> m, done |-> done, got |-> got, os |-> os]
Arrivals ==
    {Arrival(m, {}, {m}, goos) : m \in BagToSet(msgs)}
    \cup UNION {{Arrival(m, {c}, {}, os) : m \in Results(c, os)} :
                   <<c, os>> \in {x \in BagToSet(cmds) \X (GOOSSet \cup {""}) : x[2] \in GOOSOf(x[1])}}
KeyMsg(k) == Msg("KeyMsg", <<k>>, <<>>, NoErr, Cmd("", <<>>))
WindowSizeMsg == Msg("WindowSizeMsg", <<>>, <<>>, NoErr, Cmd("", <<>>))
Key(k) == Arrival(KeyMsg(k), {}, {}, goos)

\* The runtime takes the commands Update returned.  Every QuitMsg ends the
\* program alike, so a tea.Quit returned while one is pending is not kept apart.
Dispatch(a, D) ==
    cmds' = (cmds (-) SetToBag(a.done))
            (+) SetToBag({c \in D : c # QuitCmd \/ ~BagIn(QuitCmd, cmds)})

NoLast == [m |-> Msg("", <<>>, <<>>, NoErr, Cmd("", <<>>)), from |-> "", disp |-> NoCmds]

\* Update returns: the message is consumed and the commands are handed over
Return(a, D) ==
    /\ msgs' = msgs (-) SetToBag(a.got)
    /\ Dispatch(a, D)
    /\ last' = [m |-> a.m, from |-> Variant, disp |-> D]
    /\ goos' = a.os
    /\ UNCHANGED <<cfgFile, tree, home, running, exitCode, dispatched>>

\* Update returns the command the user asked for with enter
ReturnAsked(D) ==
    /\ D # NoCmds => dispatched < MaxDispatch
    /\ dispatched' = IF D # NoCmds THEN dispatched + 1 ELSE dispatched
    /\ Dispatch(Key("enter"), D)
    /\ last' = [m |-> KeyMsg("enter"), from |-> Variant, disp |-> D]
    /\ UNCHANGED <<msgs, envVars>>

-----------------------------------------------------------------------------
(* The list and the viewport (bubbles), as far as the program drives them *)

RECURSIVE IsSubseq(_, _)
IsSubseq(pat, s) ==
    IF pat = <<>> THEN TRUE
    ELSE IF s = <<>> THEN FALSE
    ELSE IF Head(pat) = ToLower(Head(s)) THEN IsSubseq(Tail(pat), Tail(s))
    ELSE IsSubseq(pat, Tail(s))

\* item.FilterValue
FilterValue(i) == Base(i.path)

RECURSIVE FilterItems(_, _)
FilterItems(its, text) ==
    IF its = <<>> THEN <<>>
    ELSE (IF IsSubseq(text, FilterValue(Head(its))) THEN <<Head(its)>> ELSE <<>>)
         \o FilterItems(Tail(its), text)

\* list.VisibleItems
VisibleItems == IF filterState = Unfiltered THEN items ELSE filteredItems

\* list.SelectedItem: none (an empty sequence) when the cursor is past the visible items
SelectedItem ==
    IF cursor < Len(VisibleItems) THEN <<VisibleItems[cursor + 1]>> ELSE <<>>

\* list.SetItems; main.go drops the command that would filter the new items
SetItems(notes) ==
    /\ items' = notes
    /\ filteredItems' = IF filterState # Unfiltered THEN <<>> ELSE filteredItems
    /\ UNCHANGED <<cursor, filterState, filterText>>

resetFiltering ==
    /\ filterState' = Unfiltered
    /\ filterText' = <<>>
    /\ filteredItems' = <<>>
    /\ UNCHANGED <<items, cursor>>

\* the text inputs: a rune is appended up to the limit, backspace deletes
EditText(text, k) ==
    IF k \in Runes THEN (IF Len(text) < MaxInput THEN Append(text, k) ELSE text)
    ELSE IF k = "backspace" /\ text # <<>> THEN SubSeq(text, 1, Len(text) - 1)
    ELSE text

\* list.Update on a key while the filter is being typed
listFilteringKey(k) ==
    filterState = Filtering /\
    \/ /\ k = "esc"
       /\ resetFiltering
    \/ /\ k = "enter"
       /\ filterText # <<>> /\ items # <<>>
       /\ IF filteredItems = <<>>
          THEN resetFiltering
          ELSE filterState' = FilterApplied
               /\ UNCHANGED <<items, cursor, filterText, filteredItems>>
    \/ /\ k = "enter"
       /\ filterText = <<>> \/ items = <<>>
       /\ UNCHANGED listVars
    \/ /\ k \notin {"esc", "enter"}
       /\ filterText' = EditText(filterText, k)
       /\ filteredItems' = IF filterText' # filterText
                           THEN FilterItems(items, filterText')
                           ELSE filteredItems
       /\ UNCHANGED <<items, cursor, filterState>>

\* the keys on which list.Update returns tea.Quit
listQuits(k) ==
    /\ filterState # Filtering
    /\ k = "q" \/ (k = "esc" /\ filterState # FilterApplied)

\* list.Update on a key while browsing
listBrowsingKey(k) ==
    filterState # Filtering /\
    \/ /\ k = "esc" /\ filterState = FilterApplied
       /\ resetFiltering
    \/ /\ k = "up"
       /\ cursor' = Max(cursor - 1, 0)
       /\ UNCHANGED <<items, filterState, filterText, filteredItems>>
    \/ /\ k = "down"
       /\ cursor' = IF cursor + 1 < Len(VisibleItems) THEN cursor + 1
                    ELSE Max(Len(VisibleItems) - 1, 0)
       /\ UNCHANGED <<items, filterState, filterText, filteredItems>>
    \/ /\ k = "/" /\ items # <<>>
       /\ filterState' = Filtering
       /\ cursor' = 0
       /\ filteredItems' = IF filterText = <<>> THEN items ELSE filteredItems
       /\ UNCHANGED <<items, filterText>>
    \/ /\ \/ listQuits(k)
          \/ k \in {"a", "b", "backspace", "enter"}
          \/ k = "/" /\ items = <<>>
       /\ UNCHANGED listVars

\* viewport: the content's lines, one for each token of the text
LineCount == Len(vpContent.text)
\* viewport.maxYOffset
maxYOffset == Max(0, LineCount - vpSize[2])

\* viewport.Update on a key: up and down scroll a line, b pages up
viewportKey(k) ==
    /\ vpYOffset' = CASE k = "down" -> Max(vpYOffset, Min(vpYOffset + 1, maxYOffset))
                      [] k = "up" -> Max(vpYOffset - 1, 0)
                      [] k = "b" -> Max(vpYOffset - vpSize[2], 0)
                      [] OTHER -> vpYOffset
    /\ UNCHANGED vpContent

-----------------------------------------------------------------------------
(* model.Update, one action per case *)

\* faulty variant of case tea.WindowSizeMsg: the list is rebuilt for the new size and
\* its cursor and filter are lost
UpdateWindowSizeResetsList(sz) ==
    /\ running
    /\ listSize' = <<sz[1] - FrameH, sz[2] - FrameV>>
    /\ vpSize' = <<sz[1] - FrameH, sz[2] - FrameV>>
    /\ cursor' = 0
    /\ resetFiltering
    /\ UNCHANGED <<state, showViewport, err, config, inputBuf, vpVars>>
    /\ Return(Arrival(WindowSizeMsg, {}, {}, goos), NoCmds)

\* case tea.WindowSizeMsg
UpdateWindowSize(sz) ==
    /\ running
    /\ listSize' = <<sz[1] - FrameH, sz[2] - FrameV>>
    /\ vpSize' = <<sz[1] - FrameH, sz[2] - FrameV>>
    /\ UNCHANGED <<state, showViewport, err, config, listVars, inputBuf, vpVars>>
    /\ Return(Arrival(WindowSizeMsg, {}, {}, goos), NoCmds)

\* faulty variant of ctrl+c: while the filter is typed the key is left to the list,
\* which does nothing with it
UpdateCtrlCNotWhileFiltering ==
    /\ running
    /\ UNCHANGED <<state, showViewport, err, config, listVars, sizeVars, inputBuf, vpVars>>
    /\ Return(Key("ctrl+c"),
              IF state = stateShowList /\ ~showViewport /\ filterState = Filtering
              THEN NoCmds ELSE {QuitCmd})

\* case tea.KeyMsg: msg.Type == tea.KeyCtrlC
UpdateCtrlC ==
    /\ running
    /\ UNCHANGED <<state, showViewport, err, config, listVars, sizeVars, inputBuf, vpVars>>
    /\ Return(Key("ctrl+c"), {QuitCmd})

\* faulty variant of case configLoadedMsg, NotesPath == "": the missing path is an error
UpdateConfigLoadedEmptyIsError(a) ==
    /\ running
    /\ a.m.type = "configLoadedMsg" /\ a.m.text = <<>>
    /\ err' = "NoNotesPath"
    /\ UNCHANGED <<state, showViewport, config, listVars, sizeVars, inputBuf, vpVars>>
    /\ Return(a, {QuitCmd})

\* case configLoadedMsg, NotesPath == ""
UpdateConfigLoadedEmpty(a) ==
    /\ running
    /\ a.m.type = "configLoadedMsg" /\ a.m.text = <<>>
    /\ state' = statePromptForPath
    /\ UNCHANGED <<showViewport, err, config, listVars, sizeVars, inputBuf, vpVars>>
    /\ Return(a, NoCmds)

\* faulty variant of case configLoadedMsg, NotesPath set: the scan is given the path
\* the model held before the message
UpdateConfigLoadedStaleRoot(a) ==
    /\ running
    /\ a.m.type = "configLoadedMsg" /\ a.m.text # <<>>
    /\ config' = a.m.text
    /\ state' = stateShowList
    /\ UNCHANGED <<showViewport, err, listVars, sizeVars, inputBuf, vpVars>>
    /\ Return(a, {Cmd("scan", config)})

\* case configLoadedMsg, NotesPath set
UpdateConfigLoaded(a) ==
    /\ running
    /\ a.m.type = "configLoadedMsg" /\ a.m.text # <<>>
    /\ config' = a.m.text
    /\ state' = stateShowList
    /\ UNCHANGED <<showViewport, err, listVars, sizeVars, inputBuf, vpVars>>
    /\ Return(a, {Cmd("scan", a.m.text)})

\* case notesFoundMsg
UpdateNotesFound(a) ==
    /\ running
    /\ a.m.type = "notesFoundMsg"
    /\ SetItems(a.m.notes)
    /\ UNCHANGED <<state, showViewport, err, config, sizeVars, inputBuf, vpVars>>
    /\ Return(a, NoCmds)

\* faulty variant of case configSavedMsg: the config is not loaded again
UpdateConfigSavedNoReload(a) ==
    /\ running
    /\ a.m.type = "configSavedMsg"
    /\ UNCHANGED <<state, showViewport, err, config, listVars, sizeVars, inputBuf, vpVars>>
    /\ Return(a, NoCmds)

\* case configSavedMsg
UpdateConfigSaved(a) ==
    /\ running
    /\ a.m.type = "configSavedMsg"
    /\ UNCHANGED <<state, showViewport, err, config, listVars, sizeVars, inputBuf, vpVars>>
    /\ Return(a, {Cmd("load", <<>>)})

\* faulty variant of case errorMsg: the error is dropped, the program still quits
UpdateErrorDropped(a) ==
    /\ running
    /\ a.m.type = "errorMsg"
    /\ UNCHANGED <<state, showViewport, err, config, listVars, sizeVars, inputBuf, vpVars>>
    /\ Return(a, {QuitCmd})

\* case errorMsg
UpdateError(a) ==
    /\ running
    /\ a.m.type = "errorMsg"
    /\ err' = a.m.err
    /\ UNCHANGED <<state, showViewport, config, listVars, sizeVars, inputBuf, vpVars>>
    /\ Return(a, {QuitCmd})

\* a key other than ctrl+c in stateInitial: no sub-model takes it
UpdateKeyInitial(k) ==
    /\ running /\ k # "ctrl+c"
    /\ state = stateInitial
    /\ UNCHANGED <<state, showViewport, err, config, listVars, sizeVars, inputBuf, vpVars>>
    /\ Return(Key(k), NoCmds)

\* updatePromptView: enter
PromptEnter ==
    /\ running
    /\ state = statePromptForPath
    /\ UNCHANGED <<state, showViewport, err, config, listVars, sizeVars, inputBuf, vpVars>>
    /\ ReturnAsked({Cmd("save", inputBuf)})

\* updatePromptView: any other key goes to the text input
PromptKey(k) ==
    /\ running /\ k \notin {"ctrl+c", "enter"}
    /\ state = statePromptForPath
    /\ inputBuf' = EditText(inputBuf, k)
    /\ UNCHANGED <<state, showViewport, err, config, listVars, sizeVars, vpVars>>
    /\ Return(Key(k), NoCmds)

\* faulty variant of closing the viewport: the key also reaches the list, whose q and
\* esc quit the program
ViewportCloseQuits(k) ==
    /\ running /\ k \in {"q", "esc"}
    /\ state = stateShowList /\ showViewport
    /\ showViewport' = FALSE
    /\ UNCHANGED <<state, err, config, listVars, sizeVars, inputBuf, vpVars>>
    /\ Return(Key(k), {QuitCmd})

\* updateListView, case tea.KeyMsg with the viewport shown: q and esc close it
ViewportClose(k) ==
    /\ running /\ k \in {"q", "esc"}
    /\ state = stateShowList /\ showViewport
    /\ showViewport' = FALSE
    /\ UNCHANGED <<state, err, config, listVars, sizeVars, inputBuf, vpVars>>
    /\ Return(Key(k), NoCmds)

\* faulty variant of the viewport keys: the key goes on to the list as well
ViewportKeyReachesList(k) ==
    /\ running /\ k \notin {"ctrl+c", "q", "esc"}
    /\ state = stateShowList /\ showViewport
    /\ viewportKey(k)
    /\ IF filterState # Filtering /\ k \in {"up", "down"}
       THEN listBrowsingKey(k)
       ELSE UNCHANGED listVars
    /\ UNCHANGED <<state, showViewport, err, config, sizeVars, inputBuf>>
    /\ Return(Key(k), NoCmds)

\* updateListView, case tea.KeyMsg with the viewport shown: the viewport takes the key
ViewportKey(k) ==
    /\ running /\ k \notin {"ctrl+c", "q", "esc"}
    /\ state = stateShowList /\ showViewport
    /\ viewportKey(k)
    /\ UNCHANGED <<state, showViewport, err, config, listVars, sizeVars, inputBuf>>
    /\ Return(Key(k), NoCmds)

\* updateListView while the filter is typed: the list takes every key
ListFilteringKey(k) ==
    /\ running /\ k # "ctrl+c"
    /\ state = stateShowList /\ ~showViewport
    /\ filterState = Filtering
    /\ listFilteringKey(k)
    /\ UNCHANGED <<state, showViewport, err, config, sizeVars, inputBuf, vpVars>>
    /\ Return(Key(k), NoCmds)

\* faulty variant of the enter key's choice: the selection is not tested, and with no
\* item selected the zero item is read
EnterCmdsUnchecked(sel) ==
    IF sel = <<>> THEN {Cmd("read", <<>>)}
    ELSE IF sel[1].noteType = "md" THEN {Cmd("read", sel[1].path)}
    ELSE IF sel[1].noteType = "pdf" THEN {Cmd("open", sel[1].path)}
    ELSE NoCmds

\* faulty variant of the enter key's choice: every note is read as Markdown
EnterCmdsReadsAll(sel) ==
    IF sel = <<>> THEN NoCmds ELSE {Cmd("read", sel[1].path)}

\* the command enter dispatches for the selected item
EnterCmds(sel) ==
    IF sel = <<>> THEN NoCmds
    ELSE IF sel[1].noteType = "md" THEN {Cmd("read", sel[1].path)}
    ELSE IF sel[1].noteType = "pdf" THEN {Cmd("open", sel[1].path)}
    ELSE NoCmds

\* updateListView: enter on the list
ListEnter ==
    /\ running
    /\ state = stateShowList /\ ~showViewport
    /\ filterState # Filtering
    /\ UNCHANGED <<state, showViewport, err, config, listVars, sizeVars, inputBuf, vpVars>>
    /\ ReturnAsked(EnterCmds(SelectedItem))

\* updateListView: any other key goes to the list
ListKey(k) ==
    /\ running /\ k \notin {"ctrl+c", "enter"}
    /\ state = stateShowList /\ ~showViewport
    /\ filterState # Filtering
    /\ listBrowsingKey(k)
    /\ UNCHANGED <<state, showViewport, err, config, sizeVars, inputBuf, vpVars>>
    /\ Return(Key(k), IF listQuits(k) THEN {QuitCmd} ELSE NoCmds)

\* faulty variant of case fileContentMsg: the viewport is not scrolled back to the top
UpdateFileContentNoGotoTop(a) ==
    /\ running
    /\ a.m.type = "fileContentMsg"
    /\ IF state # stateShowList
       THEN /\ UNCHANGED <<state, showViewport, err, config, listVars, sizeVars,
                           inputBuf, vpVars>>
            /\ Return(a, NoCmds)
       ELSE IF ~RenderOK(a.m.text)
       THEN /\ showViewport' = TRUE
            /\ err' = "RenderFailure"
            /\ UNCHANGED <<state, config, listVars, sizeVars, inputBuf, vpVars>>
            /\ Return(a, {QuitCmd})
       ELSE /\ showViewport' = TRUE
            /\ vpContent' = Render(a.m.text, vpSize[1])
            /\ UNCHANGED <<state, err, config, listVars, sizeVars, inputBuf, vpYOffset>>
            /\ Return(a, NoCmds)

\* faulty variant of case fileContentMsg: a render error is recorded and shown, and
\* the program is not asked to quit
UpdateFileContentErrorStays(a) ==
    /\ running
    /\ a.m.type = "fileContentMsg"
    /\ IF state # stateShowList
       THEN /\ UNCHANGED <<state, showViewport, err, config, listVars, sizeVars,
                           inputBuf, vpVars>>
            /\ Return(a, NoCmds)
       ELSE IF ~RenderOK(a.m.text)
       THEN /\ showViewport' = TRUE
            /\ err' = "RenderFailure"
            /\ UNCHANGED <<state, config, listVars, sizeVars, inputBuf, vpVars>>
            /\ Return(a, NoCmds)
       ELSE /\ showViewport' = TRUE
            /\ vpContent' = Render(a.m.text, vpSize[1])
            /\ vpYOffset' = 0
            /\ UNCHANGED <<state, err, config, listVars, sizeVars, inputBuf>>
            /\ Return(a, NoCmds)

\* updateListView, case fileContentMsg.  Outside stateShowList the message goes to
\* updatePromptView, whose text input ignores it, or to no sub-model at all.
UpdateFileContent(a) ==
    /\ running
    /\ a.m.type = "fileContentMsg"
    /\ IF state # stateShowList
       THEN /\ UNCHANGED <<state, showViewport, err, config, listVars, sizeVars,
                           inputBuf, vpVars>>
            /\ Return(a, NoCmds)
       ELSE IF ~RenderOK(a.m.text)
       THEN /\ showViewport' = TRUE
            /\ err' = "RenderFailure"
            /\ UNCHANGED <<state, config, listVars, sizeVars, inputBuf, vpVars>>
            /\ Return(a, {QuitCmd})
       ELSE /\ showViewport' = TRUE
            /\ vpContent' = Render(a.m.text, vpSize[1])
            /\ vpYOffset' = 0
            /\ UNCHANGED <<state, err, config, listVars, sizeVars, inputBuf>>
            /\ Return(a, NoCmds)

-----------------------------------------------------------------------------
(* The runtime *)

\* a command has returned msg (out is empty when msg is nil): the runtime sends it
Returns(c, c2, out) ==
    /\ cmds' = (cmds (-) One(c)) (+) SetToBag(c2)
    /\ msgs' = msgs (+) SetToBag(out)
    /\ UNCHANGED <<state, showViewport, err, config, listVars, sizeVars, inputBuf, vpVars,
                   tree, goos, home, running, exitCode, dispatched, last>>

RunLoadConfig(c) ==
    /\ running /\ BagIn(c, cmds) /\ c.kind = "load"
    /\ Returns(c, {}, {loadConfig(c, home, cfgFile)})
    /\ UNCHANGED cfgFile

\* saveConfig up to os.Create: the errors it can return, none when the file is open
saveConfigCreate(c, homeOK, io) ==
    IF ~homeOK THEN {errorMsg("HomeDirFailure", c)}
    ELSE IF io = "mkdir" THEN {errorMsg("MkdirFailure", c)}
    ELSE IF io = "create" THEN {errorMsg("CreateFailure", c)}
    ELSE {}

\* saveConfig fails before it has opened the file
RunSaveConfigFails(c, io) ==
    /\ running /\ BagIn(c, cmds) /\ c.kind = "save"
    /\ saveConfigCreate(c, home, io) # {}
    /\ Returns(c, {}, saveConfigCreate(c, home, io))
    /\ UNCHANGED cfgFile

\* saveConfig: os.Create truncates the file; the encoder has not written yet
RunSaveConfigCreate(c) ==
    /\ running /\ BagIn(c, cmds) /\ c.kind = "save"
    /\ saveConfigCreate(c, home, "ok") = {}
    /\ cfgFile' = File(<<>>)
    /\ Returns(c, {Cmd("saving", c.arg)}, {})

\* saveConfig: Encode writes the file, the deferred Close runs, configSavedMsg is returned
RunSaveConfigEncode(c) ==
    /\ running /\ BagIn(c, cmds) /\ c.kind = "saving"
    /\ cfgFile' = File(Encode(c.arg))
    /\ Returns(c, {}, {configSavedMsg(Cmd("save", c.arg))})

\* saveConfig: Encode fails
RunSaveConfigEncodeFails(c) ==
    /\ running /\ BagIn(c, cmds) /\ c.kind = "saving"
    /\ Returns(c, {}, {errorMsg("EncodeFailure", Cmd("save", c.arg))})
    /\ UNCHANGED cfgFile

\* openPDF returns nil: the runtime has no message to pass to Update
OpenPDFReturnsNil(c, os) ==
    /\ running /\ BagIn(c, cmds) /\ c.kind = "open"
    /\ os \in GOOSOf(c)
    /\ openPDF(c, os, TRUE) = {}
    /\ cmds' = cmds (-) One(c)
    /\ goos' = os
    /\ UNCHANGED <<state, showViewport, err, config, listVars, sizeVars, inputBuf, vpVars,
                   msgs, cfgFile, tree, home, running, exitCode, dispatched, last>>

\* main: the event loop receives QuitMsg, p.Run() returns no error, main returns
ProcessQuit(a) ==
    /\ running
    /\ a.m.type = "QuitMsg"
    /\ running' = FALSE
    /\ exitCode' = 0
    /\ cmds' = cmds (-) SetToBag(a.done)
    /\ goos' = a.os
    /\ UNCHANGED <<state, showViewport, err, config, listVars, sizeVars, inputBuf, vpVars,
                   msgs, cfgFile, tree, home, dispatched, last>>

\* main: p.Run() cannot set up the terminal and returns an error; log.Fatalf exits 1
RunFails ==
    /\ running
    /\ state = stateInitial /\ cmds = One(Cmd("load", <<>>)) /\ listSize = <<0, 0>>
    /\ running' = FALSE
    /\ exitCode' = 1
    /\ UNCHANGED <<state, showViewport, err, config, listVars, sizeVars, inputBuf, vpVars,
                   cmds, msgs, cfgFile, tree, goos, home, dispatched, last>>

-----------------------------------------------------------------------------
(* Specification *)

InitialFiles ==
    {NoFile, File(<<"garbage">>), File(<<"theme", "=", "\"", "\"">>),
     File(Encode(<<"a">>)), File(Encode(<<"b">>)), File(Encode(<<"q">>))}

\* initialModel, Init and the process's surroundings: the disk is one of trees, the
\* config file one of files
InitOn(trees, files) ==
    /\ state = stateInitial
    /\ showViewport = FALSE
    /\ err = NoErr
    /\ config = <<>>
    /\ items = <<>> /\ cursor = 0
    /\ filterState = Unfiltered /\ filterText = <<>> /\ filteredItems = <<>>
    /\ listSize = <<0, 0>>
    /\ inputBuf = <<>>
    /\ vpContent = NoContent /\ vpYOffset = 0
    /\ vpSize = <<DefaultVpWidth, DefaultVpHeight>>
    /\ cmds = One(Cmd("load", <<>>))
    /\ msgs = EmptyBag
    /\ cfgFile \in files
    /\ tree \in trees
    /\ goos = ""
    /\ home \in BOOLEAN
    /\ running = TRUE
    /\ exitCode = NoExit
    /\ dispatched = 0
    /\ last = NoLast

Init == InitOn({Tree}, InitialFiles)

Next ==
    \/ \E sz \in WindowSizes : UpdateWindowSize(sz)
    \/ UpdateCtrlC
    \/ \E k \in PromptKeys : UpdateKeyInitial(k)
    \/ PromptEnter
    \/ \E k \in PromptKeys : PromptKey(k)
    \/ \E k \in ViewKeys : ViewportClose(k)
    \/ \E k \in ViewKeys : ViewportKey(k)
    \/ \E k \in FilterKeys : ListFilteringKey(k)
    \/ ListEnter
    \/ \E k \in ListKeys : ListKey(k)
    \/ \E a \in Arrivals : UpdateConfigLoadedEmpty(a)
    \/ \E a \in Arrivals : UpdateConfigLoaded(a)
    \/ \E a \in Arrivals : UpdateNotesFound(a)
    \/ \E a \in Arrivals : UpdateConfigSaved(a)
    \/ \E a \in Arrivals : UpdateError(a)
    \/ \E a \in Arrivals : UpdateFileContent(a)
    \/ \E a \in Arrivals : ProcessQuit(a)
    \/ \E c \in BagToSet(cmds) : RunLoadConfig(c)
    \/ \E c \in BagToSet(cmds), io \in {"mkdir", "create"} : RunSaveConfigFails(c, io)
    \/ \E c \in BagToSet(cmds) : RunSaveConfigCreate(c)
    \/ \E c \in BagToSet(cmds) : RunSaveConfigEncode(c)
    \/ \E c \in BagToSet(cmds) : RunSaveConfigEncodeFails(c)
    \/ \E c \in BagToSet(cmds), os \in GOOSSet : OpenPDFReturnsNil(c, os)
    \/ RunFails

Spec == Init /\ [][Next]_vars

\* the event loop receives a QuitMsg
Quits == \E a \in Arrivals : ProcessQuit(a)

\* The event loop reads its channel for as long as the program runs, and tea.Quit
\* runs in a goroutine like every command: a QuitMsg that can be received is received.
SpecQuit == Init /\ [][Next]_vars /\ WF_vars(Quits)

-----------------------------------------------------------------------------
(* The first run: no config file, the user names an existing folder and confirms
   once, every command succeeds, nobody quits.  Commands run in goroutines and their
   results reach the event loop through a channel: a command that can run runs, a
   result that can be delivered is delivered. *)

FirstRunKeys == {"a", "b", "backspace"}
FirstRunListKeys == {"up", "down", "/"}
FirstRunFilterKeys == {"b", "backspace", "esc", "enter"}

InitFirstRun == Init /\ cfgFile = NoFile /\ home

\* the user confirms the path of a folder that exists
FirstRunConfirm ==
    /\ dispatched = 0
    /\ RootExists(inputBuf)
    /\ PromptEnter

\* the steps of the runtime: a command runs, a result is processed
FirstRunSystem ==
    \/ \E c \in BagToSet(cmds) : RunLoadConfig(c)
    \/ \E c \in BagToSet(cmds) : RunSaveConfigCreate(c)
    \/ \E c \in BagToSet(cmds) : RunSaveConfigEncode(c)
    \/ \E a \in Arrivals : UpdateConfigLoadedEmpty(a)
    \/ \E a \in Arrivals : UpdateConfigLoaded(a)
    \/ \E a \in Arrivals : UpdateConfigSaved(a)
    \/ \E a \in Arrivals : UpdateNotesFound(a)

\* the steps of the user and the terminal
FirstRunUser ==
    \/ \E sz \in WindowSizes : UpdateWindowSize(sz)
    \/ \E k \in FirstRunKeys : UpdateKeyInitial(k)
    \/ \E k \in FirstRunKeys : PromptKey(k)
    \/ FirstRunConfirm
    \/ \E k \in FirstRunListKeys : ListKey(k)
    \/ \E k \in FirstRunFilterKeys : ListFilteringKey(k)

NextFirstRun == FirstRunSystem \/ FirstRunUser

SpecFirstRun == InitFirstRun /\ [][NextFirstRun]_vars /\ WF_vars(FirstRunSystem)

-----------------------------------------------------------------------------
(* The scan on every disk: the config file names a folder, the disk is any part of
   Tree in which every entry has its parent, and the program runs from its start
   to the scan's result. *)

\* the entries of Tree whose indices are in M, in Tree's order
RECURSIVE Pick(_, _)
Pick(M, i) ==
    IF i > Len(Tree) THEN <<>>
    ELSE (IF i \in M THEN <<Tree[i]>> ELSE <<>>) \o Pick(M, i + 1)

\* every entry of M has the folders above it in M
Closed(M) ==
    \A i \in M : \A j \in 1..Len(Tree) :
       (Tree[j].isDir /\ Under(Tree[j].path, Tree[i].path)) => j \in M

Trees == {Pick(M, 1) : M \in {N \in SUBSET (1..Len(Tree)) : Closed(N)}}

ScanRoots == {<<"a">>, <<"b">>, <<"a", "/", "b">>}

InitScan == InitOn(Trees, {File(Encode(r)) : r \in ScanRoots}) /\ home

NextScan ==
    \/ \E c \in BagToSet(cmds) : RunLoadConfig(c)
    \/ \E a \in Arrivals : UpdateConfigLoaded(a)
    \/ \E a \in Arrivals : UpdateNotesFound(a)
    \/ \E a \in Arrivals : UpdateError(a)
    \/ \E a \in Arrivals : ProcessQuit(a)

SpecScan == InitScan /\ [][NextScan]_vars

-----------------------------------------------------------------------------
(* Claims *)

\* the errors a command can return, and the renderer's
CommandErrors ==
    {"HomeDirFailure", "ConfigCorrupt", "MkdirFailure", "CreateFailure", "EncodeFailure",
     "ScanFailure", "ReadFailure", "UnsupportedPlatform", "LaunchFailure"}

\* C1: every failing result is recorded and shown.  When the last message Update
\* processed was an error result and the state before it was not Fatal, the state is
\* Fatal and model.err is that error; the same when it was a file's content, processed
\* on the list screen, that the renderer rejected.
C1_ErrorsAreFatal ==
    /\ (last.m.type = "errorMsg" /\ last.from # "Fatal")
          => (Variant = "Fatal" /\ err = last.m.err /\ err \in CommandErrors)
    /\ (last.m.type = "fileContentMsg" /\ ~RenderOK(last.m.text)
           /\ last.from \in {"Browsing", "Viewing"})
          => (Variant = "Fatal" /\ err = "RenderFailure")

\* C1: an opener that does not exist for the platform has ended a browsing session
C1_Witness ==
    /\ last.m.type = "errorMsg" /\ last.m.err = "UnsupportedPlatform"
    /\ last.from = "Browsing"
    /\ Variant = "Fatal" /\ err = "UnsupportedPlatform"

\* a step hands the runtime no command it did not have (saveConfig going on to its
\* second half apart)
NoNewCommand ==
    \A c \in BagToSet(cmds') : c.kind # "saving" => CopiesIn(c, cmds') <= CopiesIn(c, cmds)

\* C2: Fatal is terminal.  Once an error is recorded no step changes the state shown,
\* the notes, the selection, the config or the recorded error, and no step
\* dispatches a command.
C2_FatalIsTerminal ==
    [][(err # NoErr)
         => /\ Variant' = Variant /\ state' = state /\ showViewport' = showViewport
            /\ items' = items /\ cursor' = cursor
            /\ config' = config /\ err' = err
            /\ NoNewCommand]_vars

\* the kinds of command the program dispatches; saveConfig's two halves are one command
CommandKinds == {{"load"}, {"save", "saving"}, {"scan"}, {"read", "open"}}

\* C3: for each kind of command, at most one is outstanding at any time.
C3_OneOutstandingPerKind == \A K \in CommandKinds : Outstanding(K) <= 1

\* C4: a process that ended with an error recorded ended with a non-zero exit code.
C4_FatalExitsNonZero == (~running /\ err # NoErr) => exitCode # 0

\* C5: a loaded config with a notes path starts the scan.  When the last message
\* Update processed was a config-load result with a non-empty path, received in
\* AwaitingConfig, then the model holds that path (the one the file holds), exactly one
\* scan is outstanding and its root is that path, and the state is Browsing with an
\* empty list.
C5_LoadedConfigStartsScan ==
    (last.m.type = "configLoadedMsg" /\ last.m.text # <<>> /\ last.from = "AwaitingConfig")
      => /\ config = last.m.text
         /\ cfgFile = File(Encode(config))
         /\ last.disp = {Cmd("scan", config)}
         /\ Outstanding({"scan"}) = 1
         /\ BagIn(Cmd("scan", config), cmds)
         /\ state = stateShowList /\ Variant = "Browsing"
         /\ items = <<>>

\* C5: the config file names the folder a, the scan of a is outstanding
C5_Witness ==
    /\ last.m.type = "configLoadedMsg" /\ last.from = "AwaitingConfig"
    /\ config = <<"a">> /\ BagIn(Cmd("scan", <<"a">>), cmds)
    /\ Variant = "Browsing" /\ items = <<>>

\* the config file is absent, or it parses and holds no notes_path
NoNotesPath(file) == ~file.exists \/ (DecodeOK(file.text) /\ Decode(file.text) = <<>>)

\* C6: an absent config file and a config file without a notes path are treated
\* alike.  When the last message Update processed was the result of loadConfig,
\* received in AwaitingConfig, and the home directory is known and the file is absent
\* or has no notes_path, then the result was a config with an empty path, no error is
\* recorded, no command was dispatched, no scan is outstanding and the state is
\* PromptingForPath.
C6_AbsentAndEmptyPrompt ==
    (last.m.src = "load" /\ last.from = "AwaitingConfig" /\ home /\ NoNotesPath(cfgFile))
      => /\ last.m.type = "configLoadedMsg" /\ last.m.text = <<>>
         /\ err = NoErr
         /\ last.disp = NoCmds
         /\ Outstanding({"scan"}) = 0
         /\ state = statePromptForPath /\ Variant = "PromptingForPath"

\* C6: the file parses, holds no notes_path, and the program prompts
C6_Witness ==
    /\ last.m.src = "load" /\ last.from = "AwaitingConfig"
    /\ cfgFile.exists /\ NoNotesPath(cfgFile)
    /\ Variant = "PromptingForPath"

\* the folders the user can name on the first run
FirstRunPaths == {<<k>> : k \in {"a", "b"}}

\* the stages of the first run for the path P
Confirmed(P) == BagIn(Cmd("save", P), cmds)
Saved(P) ==
    /\ cfgFile = File(Encode(P))
    /\ BagIn(configSavedMsg(Cmd("save", P)), msgs)
Reloaded(P) ==
    /\ cfgFile = File(Encode(P))
    /\ BagIn(configLoadedMsg(P, Cmd("load", <<>>)), msgs)
Scanning(P) ==
    /\ BagIn(Cmd("scan", P), cmds)
    /\ config = P
    /\ Variant = "Browsing"

\* C7: the first run.  With no config file the program comes to prompt for the path;
\* once the user has confirmed a path P, the config file comes to hold P, after that
\* a reload returns P, after that a scan of exactly P is outstanding and the state is
\* Browsing; and no scan is ever outstanding for a path other than the one the file
\* and the model hold.
C7_FirstRun ==
    /\ <>(Variant = "PromptingForPath")
    /\ \A P \in FirstRunPaths :
          Confirmed(P) ~> (Saved(P) /\ <>(Reloaded(P) /\ <>Scanning(P)))
    /\ [](\A c \in BagToSet(cmds) :
            c.kind = "scan" => (cfgFile = File(Encode(c.arg)) /\ config = c.arg))

\* C7: the folder a was confirmed, saved and loaded again; its scan is outstanding
C7_Witness ==
    /\ dispatched = 1
    /\ Scanning(<<"a">>)
    /\ cfgFile = File(Encode(<<"a">>))

\* C8: a saved config is loaded again and the prompt is left.  When the last message
\* Update processed was a config-save result of ok, received in PromptingForPath, a
\* config load was dispatched and the state is AwaitingConfig.
C8_SavedAwaitsConfig ==
    (last.m.type = "configSavedMsg" /\ last.from = "PromptingForPath")
      => /\ last.disp = {Cmd("load", <<>>)}
         /\ Variant = "AwaitingConfig"

\* the kind a result message names for the command that returned it
KindOf(c) == IF c.kind = "saving" THEN "save" ELSE c.kind

\* the step sends one result of the command c to the event loop, or the event loop
\* receives it in this step and Update (or the runtime, for tea.Quit) processes it
Delivers(c) ==
    \/ \E m \in BagToSet(msgs') :
          m.src = KindOf(c) /\ CopiesIn(m, msgs') = CopiesIn(m, msgs) + 1
    \/ msgs' = msgs /\ last'.m.src = c.kind
    \/ msgs' = msgs /\ c.kind = "quit" /\ ~running'

\* C9: every command delivers exactly one result.  In every step in which a command
\* completes (saveConfig going on to its second half is not completion), one result
\* of it is delivered, and the step produces no second message.
C9_OneResultPerCommand ==
    [][\A c \in BagToSet(cmds) :
         (CopiesIn(c, cmds') < CopiesIn(c, cmds)
            /\ ~(c.kind = "save" /\ CopiesIn(Cmd("saving", c.arg), cmds')
                                     > CopiesIn(Cmd("saving", c.arg), cmds)))
           => /\ Delivers(c)
              /\ BagCardinality(msgs') <= BagCardinality(msgs) + 1]_vars

\* C10: viewing a Markdown note.  Enter in Browsing on a Markdown item dispatches the
\* read of the item's path and the state stays Browsing; no key and no resize leaves
\* Browsing, only a command's result does; and a file's content that arrives in
\* Browsing and that the renderer accepts makes the state Viewing, the viewport
\* holding the rendering of the file the command read, scrolled to the top.
C10_ViewMarkdown ==
    [][Variant = "Browsing" =>
         /\ (SelectedItem # <<>> /\ SelectedItem[1].noteType = "md" /\ ListEnter)
              => /\ cmds' = cmds (+) One(Cmd("read", SelectedItem[1].path))
                 /\ Variant' = "Browsing"
         /\ Variant' # "Browsing" => last'.m.src # ""
         /\ \A a \in Arrivals :
              (a.m.type = "fileContentMsg" /\ RenderOK(a.m.text) /\ UpdateFileContent(a))
                => /\ \E c \in a.done :
                        /\ c.kind = "read"
                        /\ vpContent' = Render(FileText(c.arg), vpSize[1])
                   /\ Variant' = "Viewing"
                   /\ vpYOffset' = 0]_vars

\* C10: the note a/a.md, read after enter in Browsing, is shown from its top
C10_Witness ==
    /\ last.m.type = "fileContentMsg" /\ last.from = "Browsing"
    /\ Variant = "Viewing"
    /\ vpContent = Render(FileText(<<"a", "/", "a", ".md">>), vpSize[1])
    /\ vpYOffset = 0
    /\ dispatched = 2

\* C11: opening a PDF.  Enter in Browsing on a Pdf item dispatches the opener with
\* the item's path and nothing else, and the model is left as it was; and a step in
\* Browsing in which an opener completes with no error processed leaves the state
\* Browsing with the notes, the selection, the filter and the viewport as they were.
C11_OpenPdf ==
    [][Variant = "Browsing" =>
         /\ (SelectedItem # <<>> /\ SelectedItem[1].noteType = "pdf" /\ ListEnter)
              => /\ cmds' = cmds (+) One(Cmd("open", SelectedItem[1].path))
                 /\ Variant' = "Browsing"
                 /\ UNCHANGED <<listVars, vpVars, msgs>>
         /\ \A c \in BagToSet(cmds) :
              (c.kind = "open" /\ CopiesIn(c, cmds') < CopiesIn(c, cmds) /\ err' = NoErr)
                => /\ Variant' = "Browsing"
                   /\ UNCHANGED <<listVars, vpVars, showViewport>>]_vars

\* C11: the opener of a/b/b.Pdf has succeeded on linux and the program browses on
C11_Witness ==
    /\ goos = "linux"
    /\ dispatched = 1
    /\ last.m = KeyMsg("enter") /\ last.disp = {Cmd("open", <<"a", "/", "b", "/", "b", ".Pdf">>)}
    /\ cmds = EmptyBag /\ msgs = EmptyBag
    /\ Variant = "Browsing"

C13_CtrlCQuits ==
    /\ []((last.m = KeyMsg("ctrl+c") /\ last.from # "Fatal") => last.disp = {QuitCmd})
    /\ (last.m = KeyMsg("ctrl+c") /\ last.from # "Fatal") ~> (~running /\ exitCode = 0)

\* C13: ctrl+c while the filter was typed and a read was outstanding; the process
\* has ended with exit code 0
C13_Witness ==
    /\ last.m = KeyMsg("ctrl+c") /\ last.from = "Browsing"
    /\ filterState = Filtering
    /\ \E c \in BagToSet(cmds) : c.kind = "read"
    /\ ~running /\ exitCode = 0

\* C14: a resize changes the layout only.  A resize processed in a state that is not
\* Fatal sets the list's size and the viewport's width and height to the window's
\* size less the frame, and leaves the state shown, the notes, the selection, the
\* filter, the input buffer, the config, the error, the viewport's content and the
\* outstanding commands as they were.
C14_ResizeLayoutOnly ==
    [][Variant # "Fatal" =>
         \A sz \in WindowSizes :
            UpdateWindowSize(sz)
              => /\ listSize' = <<sz[1] - FrameH, sz[2] - FrameV>>
                 /\ vpSize' = listSize'
                 /\ Variant' = Variant
                 /\ UNCHANGED <<state, showViewport, err, config, listVars, inputBuf, vpVars>>
                 /\ cmds' = cmds /\ msgs' = msgs /\ last'.disp = NoCmds
                 /\ running']_vars

\* C14: a resize while the filter was typed with text in it
C14_Witness ==
    /\ last.m = WindowSizeMsg /\ last.from = "Browsing"
    /\ filterState = Filtering /\ filterText # <<>>
    /\ listSize = <<40, 4>> /\ vpSize = <<40, 4>>

\* the entries of the disk that lie under root and are no directories
FilesUnder(root) ==
    {i \in 1..Len(tree) : ~tree[i].isDir /\ Under(root, tree[i].path)}

\* C15: an empty notes folder.  The scan of a folder that exists and holds no file
\* returns no notes and no error; when the last message Update processed was a scan's
\* result without notes, received in Browsing, the state is Browsing with an empty
\* list, no selection and no error; and when it was enter, received in Browsing with
\* an empty list, Update returned no command and the process runs on as before.
C15_EmptyFolder ==
    /\ \A i \in 1..Len(tree) :
          (tree[i].isDir /\ FilesUnder(tree[i].path) = {})
            => findNotes(Cmd("scan", tree[i].path))
                 = notesFoundMsg(<<>>, Cmd("scan", tree[i].path))
    /\ (last.m.type = "notesFoundMsg" /\ last.m.notes = <<>> /\ last.from = "Browsing")
          => /\ Variant = "Browsing" /\ err = NoErr
             /\ items = <<>> /\ SelectedItem = <<>>
             /\ last.disp = NoCmds
    /\ (last.m = KeyMsg("enter") /\ last.from = "Browsing" /\ items = <<>>)
          => /\ last.disp = NoCmds
             /\ Variant = "Browsing" /\ err = NoErr
             /\ SelectedItem = <<>>

\* C15: the config names the empty folder b; its scan has returned and enter was pressed
C15_Witness ==
    /\ config = <<"b">>
    /\ last.m = KeyMsg("enter") /\ last.from = "Browsing"
    /\ items = <<>> /\ cmds = EmptyBag /\ msgs = EmptyBag
    /\ Variant = "Browsing" /\ running

\* the notes a scan of root has to return: the files under root, at any depth, whose
\* lowercased extension is .md or .pdf, each with its type
NotesUnder(root) ==
    {item(tree[i].path, "md") :
        i \in {j \in FilesUnder(root) : ToLower(Ext(tree[j].path)) = ".md"}}
    \cup {item(tree[i].path, "pdf") :
        i \in {j \in FilesUnder(root) : ToLower(Ext(tree[j].path)) = ".pdf"}}

\* C16: the scan returns exactly the notes.  On every disk, when the last message
\* Update processed was the result of the scan of a folder that exists, it was a
\* notesFoundMsg whose notes are exactly the files under the folder with the
\* lowercased extension .md or .pdf, each classified by it, none of them twice; and
\* the list holds them.
C16_ScanExact ==
    (last.m.src = "scan" /\ RootExists(config))
      => /\ last.m.type = "notesFoundMsg"
         /\ {last.m.notes[i] : i \in 1..Len(last.m.notes)} = NotesUnder(config)
         /\ Len(last.m.notes) = Cardinality(NotesUnder(config))
         /\ items = last.m.notes

\* C16: the scan of a on the whole of Tree has found a/a.md, a/b/b.Pdf and a/q.MD
C16_Witness ==
    /\ tree = Tree /\ config = <<"a">>
    /\ last.m.src = "scan"
    /\ items = << item(<<"a", "/", "a", ".md">>, "md"),
                  item(<<"a", "/", "b", "/", "b", ".Pdf">>, "pdf"),
                  item(<<"a", "/", "q", ".MD">>, "md") >>

\* the file is a config file as saveConfig leaves it when it has finished
WholeFile(file) == file.exists /\ file.text # <<>> /\ file.text = Encode(Decode(file.text))

\* C17: save and load round-trip, and no load sees a file half written.  Every path
\* the prompt can hold is decoded as it was encoded; and whenever a loadConfig that
\* was dispatched for a save's result runs with the home directory known, the file is
\* whole and the result is a config with exactly the path the file was saved with.
C17_SaveLoadRoundTrip ==
    [][/\ \A n \in 0..MaxInput : \A P \in [1..n -> Runes] :
            DecodeOK(Encode(P)) /\ Decode(Encode(P)) = P
       /\ \A c \in BagToSet(cmds) :
            (state # stateInitial /\ home /\ RunLoadConfig(c))
              => /\ WholeFile(cfgFile)
                 /\ BagIn(configLoadedMsg(Decode(cfgFile.text), c), msgs')]_vars

\* C18: once the notes are browsed the prompt never comes back.  Every step taken
\* in Browsing or Viewing ends in Browsing, Viewing or Fatal, never in
\* PromptingForPath or AwaitingConfig (Fatal is never left, the error is never cleared).
C18_NoReturnToPrompt ==
    [][(Variant \in {"Browsing", "Viewing"})
         => (Variant' \in {"Browsing", "Viewing", "Fatal"})]_vars

\* C19: a closed viewer stays closed.  The viewer is opened, and its content set,
\* only by processing a fileContentMsg, and confirm in Browsing is the only step that
\* dispatches a read; so the viewer stays closed until the next confirm exactly when
\* no read is outstanding at the step that closes it, and a content result belongs to
\* the most recent confirm exactly when it is the only read outstanding when it is
\* processed.  Both hold in every step, and the step that follows the closing of the
\* viewer does not open it again.
C19_NoStaleContent ==
    [][/\ (last.m \in {KeyMsg("q"), KeyMsg("esc")} /\ last.from = "Viewing"
           /\ Variant = "Browsing")
            => (Variant' # "Viewing" /\ vpContent' = vpContent)
       /\ \A k \in {"q", "esc"} :
            (Variant = "Viewing" /\ ViewportClose(k)) => Outstanding({"read"}) = 0
       /\ \A a \in Arrivals :
            (a.m.type = "fileContentMsg" /\ UpdateFileContent(a))
              => Outstanding({"read"}) = 1]_vars

\* the read and open commands outstanding in a bag of commands
Asked(bag) == Count(bag, {c \in BagToSet(bag) : c.kind \in {"read", "open"}})

\* C20: keys in the viewer go to the viewport only.  In Viewing, a key other than q,
\* esc and ctrl+c leaves the state Viewing, changes neither the notes, the selection
\* nor the filter, changes nothing of the viewport but its scroll offset, and neither
\* dispatches a command nor ends the program; and no step of Viewing that processes a
\* key changes the notes, the selection or the filter text or adds a read or open
\* command.
C20_ViewerKeysOnlyScroll ==
    [][Variant = "Viewing" =>
         /\ \A k \in ViewKeys \ {"q", "esc"} :
               ViewportKey(k)
                 => /\ Variant' = "Viewing"
                    /\ UNCHANGED listVars
                    /\ vpContent' = vpContent
                    /\ cmds' = cmds /\ last'.disp = NoCmds
                    /\ running'
         /\ (items' # items \/ cursor' # cursor \/ filterText' # filterText
               \/ Asked(cmds') > Asked(cmds))
              => last'.m.type # "KeyMsg"]_vars

\* C20: enter was pressed in the viewer over a selected note; nothing was dispatched
C20_Witness ==
    /\ last.m = KeyMsg("enter") /\ last.from = "Viewing"
    /\ Variant = "Viewing"
    /\ SelectedItem # <<>>
    /\ cmds = EmptyBag /\ running

\* C21: an error shown is an error that ends the session.  Every step of Update that
\* sets the error returns tea.Quit in that step; so while an error is recorded and the
\* process runs, a tea.Quit is outstanding; and, the event loop receiving the QuitMsg
\* in the end, every state with an error recorded leads to the process having ended.
C21_FatalTerminates ==
    /\ [][(err' # err) => (err' # NoErr /\ QuitCmd \in last'.disp)]_vars
    /\ []((err # NoErr /\ running) => BagIn(QuitCmd, cmds))
    /\ (err # NoErr) ~> ~running

\* C21: the render of a note failed in the viewer, the error was recorded and the
\* process has ended
C21_Witness ==
    /\ err = "RenderFailure" /\ last.m.type = "fileContentMsg"
    /\ QuitCmd \in last.disp
    /\ showViewport
    /\ ~running

====
